---- MODULE Spec2Model ----
(***************************************************************************)
(* Model of testbook's TestbookNotebookClient (src/testbook/client.py) and *)
(* TestbookNode (src/testbook/testbooknode.py).                            *)
(*                                                                         *)
(* The client is synchronous and single-threaded: every public method is   *)
(* one action.  The state is the notebook document (self.nb['cells']) and, *)
(* for the most recent method call, the call itself, its outcome (value    *)
(* returned or exception raised) and the delegated executor calls it made. *)
(* Python values are records tagged with their Python type; text is a TLA+ *)
(* string; list positions are 1-based here and 0-based in Python values.   *)
(***************************************************************************)
EXTENDS Integers, Sequences, FiniteSets, TLC

VARIABLES nb, call, result, calls, inject_cell

vars == <<nb, call, result, calls, inject_cell>>

---------------------------------------------------------------------------
(* Bounds of the model.                                                    *)

\* largest number of cells of a notebook
MaxCells == 2

\* longest list passed to execute_cell (directly or as prerun)
MaxList == 2

---------------------------------------------------------------------------
(* Python values and call outcomes.                                        *)

None == [type |-> "NoneType"]

PyInt(i) == [type |-> "int", val |-> i]

PyStr(s) == [type |-> "str", val |-> s]

PyFloat(s) == [type |-> "float", val |-> s]

PyList(items) == [type |-> "list", items |-> items]

\* a function object: its __name__ and the text inspect.getsource returns
Function(name, source) == [type |-> "function", name |-> name, source |-> source]

\* a reference to the cell object stored at a position of nb['cells']
CellRef(pos) == [type |-> "cell", pos |-> pos]

Return(v) == [kind |-> "return", val |-> v]

Raise(exc) == [kind |-> "raise", exc |-> exc]

\* isinstance(v, Callable)
IsCallable(v) == v.type = "function"

---------------------------------------------------------------------------
(* Text.                                                                   *)

\* the characters str.strip() removes (those that occur in the model)
Whitespace == {" ", "\n", "\t"}

RECURSIVE lstrip(_)
lstrip(s) ==
    IF Len(s) > 0 /\ SubSeq(s, 1, 1) \in Whitespace
    THEN lstrip(SubSeq(s, 2, Len(s)))
    ELSE s

RECURSIVE rstrip(_)
rstrip(s) ==
    IF Len(s) > 0 /\ SubSeq(s, Len(s), Len(s)) \in Whitespace
    THEN rstrip(SubSeq(s, 1, Len(s) - 1))
    ELSE s

\* str.strip()
strip(s) == rstrip(lstrip(s))

\* s.split("\n"), read from character i on; the current line starts at start
RECURSIVE SplitFrom(_, _, _)
SplitFrom(s, start, i) ==
    IF i > Len(s)
    THEN <<SubSeq(s, start, Len(s))>>
    ELSE IF SubSeq(s, i, i) = "\n"
    THEN <<SubSeq(s, start, i - 1)>> \o SplitFrom(s, i + 1, i + 1)
    ELSE SplitFrom(s, start, i + 1)

SplitLines(s) == SplitFrom(s, 1, 1)

\* sep.join(parts)
RECURSIVE Join(_, _)
Join(parts, sep) ==
    IF parts = << >>
    THEN ""
    ELSE IF Len(parts) = 1
    THEN parts[1]
    ELSE parts[1] \o sep \o Join(Tail(parts), sep)

\* the number of blanks line has from character i on, before anything else
RECURSIVE BlanksFrom(_, _)
BlanksFrom(line, i) ==
    IF i <= Len(line) /\ SubSeq(line, i, i) = " "
    THEN 1 + BlanksFrom(line, i + 1)
    ELSE 0

LeadingBlanks(line) == BlanksFrom(line, 1)

\* textwrap.dedent(text), for text indented with blanks: lines of blanks only
\* become empty, and the margin common to the other lines is removed
dedent(text) ==
    LET raw == SplitLines(text)
        indent == [i \in DOMAIN raw |-> LeadingBlanks(raw[i])]
        content == {i \in DOMAIN raw : indent[i] # Len(raw[i])}
        margin == IF content = {}
                  THEN 0
                  ELSE CHOOSE m \in {indent[i] : i \in content} :
                           \A i \in content : m <= indent[i]
    IN  Join([i \in DOMAIN raw |->
                 IF i \in content THEN SubSeq(raw[i], margin + 1, Len(raw[i])) ELSE ""],
             "\n")

\* json.dumps(v) for an int or a str of plain characters
json_dumps(v) ==
    IF v.type = "int" THEN ToString(v.val) ELSE "\"" \o v.val \o "\""

---------------------------------------------------------------------------
(* The notebook document and the external executor.                        *)

\* output records of the nbformat data model
Stream(text) == [output_type |-> "stream", name |-> "stdout", text |-> text]

ExecuteResult(plain) ==
    [output_type |-> "execute_result", data |-> ("text/plain" :> plain)]

DisplayData == [output_type |-> "display_data", data |-> ("image/png" :> "iVBOR")]

ErrorOutput == [output_type |-> "error", ename |-> "ZeroDivisionError"]

\* What the kernel does with a cell source: the outputs the executor stores
\* on the cell, and whether the executor raises CellExecutionError.
Kernel(source) ==
    CASE source = "show" ->
            [outputs |-> <<Stream("  a\n"), ExecuteResult("1"), Stream("b c \n")>>,
             raises |-> FALSE]
      [] source = "plot" ->
            [outputs |-> <<DisplayData>>, raises |-> FALSE]
      [] source = "boom" ->
            [outputs |-> <<Stream(" \n"), ErrorOutput>>, raises |-> TRUE]
      [] OTHER ->
            [outputs |-> <<ExecuteResult(source)>>, raises |-> FALSE]

\* a code cell that has not been executed
NewCell(metadata, source) ==
    [metadata |-> metadata, outputs |-> << >>, source |-> source]

\* nbformat.v4.new_code_cell(source)
new_code_cell(source) == NewCell(<< >>, source)

\* The cells the model's notebooks are made of.  cell['metadata'] is a mapping
\* that has the key "tags" or lacks it.
Cells ==
    {NewCell([tags |-> <<"a">>], "show"),
     NewCell([tags |-> <<"b", "a">>], "plot"),
     NewCell(<< >>, "boom")}

\* the notebooks a client is constructed with
Notebooks == UNION {[1..n -> Cells] : n \in 0..MaxCells}

\* Python's list subscript cells[idx]: the 1-based position selected, or the
\* exception raised
Subscript(cells, idx) ==
    IF idx.type # "int"
    THEN Raise("TypeError")
    ELSE IF idx.val >= 0 /\ idx.val < Len(cells)
    THEN Return(idx.val + 1)
    ELSE IF idx.val < 0 /\ idx.val >= 0 - Len(cells)
    THEN Return(Len(cells) + idx.val + 1)
    ELSE Raise("IndexError")

\* NotebookClient.execute_cell(cell, cell_index): runs the cell in the kernel,
\* stores its outputs on the cell object and returns that object, or raises
super_execute_cell(cells, pos) ==
    LET k == Kernel(cells[pos].source)
        after == [cells EXCEPT ![pos].outputs = k.outputs]
    IN  [cells |-> after,
         result |-> IF k.raises THEN Raise("CellExecutionError") ELSE Return(CellRef(pos))]

---------------------------------------------------------------------------
(* Arguments of the calls.                                                 *)

\* what a list passed to execute_cell may hold
Elements == {PyInt(0), PyStr("a"), PyStr("b")}

\* tuples of call arguments
PyTuple(items) == [type |-> "tuple", items |-> items]

\* a function defined in a test module
Func == Function("f", "def f(x, y):\n    return x\n")

\* every list of at most MaxList elements
Lists == UNION {[1..n -> Elements] : n \in 0..MaxList}

\* arguments of execute_cell
CellArgs ==
    {PyInt(i) : i \in {0 - MaxCells - 1, 0 - 1, 0, 1, MaxCells}}
    \cup {PyStr("a"), PyStr("b"), None, PyFloat("0.5")}
    \cup {PyList(l) : l \in Lists}

\* arguments of cell_output_text
TextArgs ==
    {PyInt(i) : i \in {0 - 1, 0, 1, MaxCells}} \cup {PyStr("a"), PyStr("b"), None}

\* (code, args) of inject
CodeArgs ==
    {<<PyStr("x"), None>>,
     <<PyStr("    import os\n\n      os.getcwd()\n    "), None>>,
     <<Func, PyTuple(<< >>)>>,
     <<Func, PyTuple(<<PyInt(1), PyStr("a")>>)>>,
     <<None, None>>}

\* prerun of inject
Preruns ==
    {None, PyInt(0), PyList(<<PyStr("a"), PyStr("b")>>), PyList(<<PyInt(0), PyStr("a")>>)}

\* name of value
Names == {PyStr("x"), PyStr("plot"), Func, None}

\* arguments of _get_cell_index
TagArgs ==
    {PyInt(i) : i \in {0 - 1, 0, MaxCells}} \cup {PyStr("a"), PyStr("b"), None, PyFloat("0.5")}

\* the code value injects to display the last result as JSON (lines 134-137)
JsonCode ==
    "\n        from IPython.display import JSON"
    \o "\n        JSON({\"value\" : _})"
    \o "\n        "

\* the text dedented at lines 111-116, args_str filled in
CallTemplate(name, args_str) ==
    "\n                # Calling " \o name
    \o "\n                " \o name \o "(" \o args_str \o ")"
    \o "\n            "

\* ', '.join(map(json.dumps, args)) if args else ''
ArgsStr(args) ==
    IF args = None \/ args.items = << >>
    THEN ""
    ELSE Join([i \in DOMAIN args.items |-> json_dumps(args.items[i])], ", ")

\* lines 103-116 of inject: the source text of the cell to inject
SourceLines(code, args) ==
    IF code.type = "str"
    THEN dedent(code.val)
    ELSE code.source \o dedent(CallTemplate(code.name, ArgsStr(args)))

\* SourceLines over everything the model injects, computed once
Injected ==
    {ca \in CodeArgs \cup {<<name, None>> : name \in Names} \cup {<<PyStr(JsonCode), None>>} :
        ca[1].type = "str" \/ IsCallable(ca[1])}

lines_of == [ca \in Injected |-> SourceLines(ca[1], ca[2])]

---------------------------------------------------------------------------
(* TestbookNotebookClient.                                                 *)

\* the positions of the cells whose metadata has tags containing tag
Tagged(cells, tag) ==
    {p \in DOMAIN cells :
        "tags" \in DOMAIN cells[p].metadata
        /\ \E i \in DOMAIN cells[p].metadata.tags : cells[p].metadata.tags[i] = tag}

\* the for loop of _get_cell_index, from position p on
RECURSIVE ScanTags(_, _, _)
ScanTags(cells, tag, p) ==
    IF p > Len(cells)
    THEN Raise("CellTagNotFoundError")
    ELSE IF p \in Tagged(cells, tag)
    THEN Return(PyInt(p - 1))
    ELSE ScanTags(cells, tag, p + 1)

\* _get_cell_index answering -1 for a tag no cell carries, as str.find does
get_cell_index_or_minus_one(cells, tag) ==
    IF tag.type = "int"
    THEN Return(tag)
    ELSE IF tag.type # "str"
    THEN Raise("TypeError")
    ELSE IF Tagged(cells, tag.val) = {}
    THEN Return(PyInt(0 - 1))
    ELSE ScanTags(cells, tag.val, 1)

\* _get_cell_index keeping the last match of the scan instead of the first
get_cell_index_last_match(cells, tag) ==
    IF tag.type = "int"
    THEN Return(tag)
    ELSE IF tag.type # "str"
    THEN Raise("TypeError")
    ELSE IF Tagged(cells, tag.val) = {}
    THEN Raise("CellTagNotFoundError")
    ELSE Return(PyInt((CHOOSE p \in Tagged(cells, tag.val) :
                          \A q \in Tagged(cells, tag.val) : q <= p) - 1))

_get_cell_index(cells, tag) ==
    IF tag.type = "int"
    THEN Return(tag)
    ELSE IF tag.type # "str"
    THEN Raise("TypeError")
    ELSE ScanTags(cells, tag.val, 1)

\* [self._get_cell_index(tag) for tag in cell]: the list of indexes, or the
\* first exception
RECURSIVE ResolveAll(_, _)
ResolveAll(cells, items) ==
    IF items = << >>
    THEN Return(<< >>)
    ELSE LET h == _get_cell_index(cells, Head(items))
         IN  IF h.kind = "raise"
             THEN h
             ELSE LET t == ResolveAll(cells, Tail(items))
                  IN  IF t.kind = "raise" THEN t ELSE Return(<<h.val>> \o t.val)

\* the for loop of execute_cell over cell_indexes
RECURSIVE ExecLoop(_, _, _, _)
ExecLoop(cells, idxs, made, executed_cells) ==
    IF idxs = << >>
    THEN [cells |-> cells, calls |-> made,
          result |-> Return(IF Len(executed_cells) = 1
                            THEN executed_cells[1]
                            ELSE PyList(executed_cells))]
    ELSE LET idx == Head(idxs)
             sub == Subscript(cells, idx)
         IN  IF sub.kind = "raise"
             THEN [cells |-> cells, calls |-> made, result |-> sub]
             ELSE LET run == super_execute_cell(cells, sub.val)
                      now == Append(made, [cell |-> sub.val, cell_index |-> idx])
                  IN  IF run.result.kind = "raise"
                      THEN [cells |-> run.cells, calls |-> now, result |-> run.result]
                      ELSE ExecLoop(run.cells, Tail(idxs), now,
                                    Append(executed_cells, run.result.val))

\* execute_cell returning a list also when exactly one cell was executed
execute_cell_always_list(cells, cell) ==
    LET items == IF cell.type = "list" THEN cell.items ELSE <<cell>>
        allstr == \A i \in DOMAIN items : items[i].type = "str"
        cell_indexes == IF allstr THEN ResolveAll(cells, items) ELSE Return(items)
        out == ExecLoop(cells, cell_indexes.val, << >>, << >>)
    IN  IF cell_indexes.kind = "raise"
        THEN [cells |-> cells, calls |-> << >>, result |-> cell_indexes]
        ELSE IF out.result.kind = "return" /\ out.result.val.type = "cell"
        THEN [out EXCEPT !.result = Return(PyList(<<out.result.val>>))]
        ELSE out

\* the loop of an execute_cell that resolves each tag only when its turn comes
RECURSIVE LazyLoop(_, _, _, _)
LazyLoop(cells, items, made, executed_cells) ==
    IF items = << >>
    THEN ExecLoop(cells, << >>, made, executed_cells)
    ELSE LET idx == _get_cell_index(cells, Head(items))
         IN  IF idx.kind = "raise"
             THEN [cells |-> cells, calls |-> made, result |-> idx]
             ELSE LET one == ExecLoop(cells, <<idx.val>>, << >>, << >>)
                  IN  IF one.result.kind = "raise"
                      THEN [one EXCEPT !.calls = made \o one.calls]
                      ELSE LazyLoop(one.cells, Tail(items), made \o one.calls,
                                    Append(executed_cells, one.result.val))

\* execute_cell resolving and executing tag by tag
execute_cell_lazy(cells, cell) ==
    LET items == IF cell.type = "list" THEN cell.items ELSE <<cell>>
        allstr == \A i \in DOMAIN items : items[i].type = "str"
    IN  IF allstr
        THEN LazyLoop(cells, items, << >>, << >>)
        ELSE ExecLoop(cells, items, << >>, << >>)

execute_cell(cells, cell) ==
    LET items == IF cell.type = "list" THEN cell.items ELSE <<cell>>
        allstr == \A i \in DOMAIN items : items[i].type = "str"
        cell_indexes == IF allstr THEN ResolveAll(cells, items) ELSE Return(items)
    IN  IF cell_indexes.kind = "raise"
        THEN [cells |-> cells, calls |-> << >>, result |-> cell_indexes]
        ELSE ExecLoop(cells, cell_indexes.val, << >>, << >>)

\* the loop of cell_output_text and of output_text: text += output['text']
RECURSIVE ConcatText(_, _)
ConcatText(text, outputs) ==
    IF outputs = << >>
    THEN text
    ELSE ConcatText(IF "text" \in DOMAIN Head(outputs)
                    THEN text \o Head(outputs).text
                    ELSE text,
                    Tail(outputs))

\* cell_output_text without the final strip()
cell_output_text_unstripped(cells, cell) ==
    LET cell_index == IF cell.type = "str" THEN _get_cell_index(cells, cell) ELSE Return(cell)
    IN  IF cell_index.kind = "raise"
        THEN cell_index
        ELSE LET sub == Subscript(cells, cell_index.val)
             IN  IF sub.kind = "raise"
                 THEN sub
                 ELSE Return(PyStr(ConcatText("", cells[sub.val].outputs)))

cell_output_text(cells, cell) ==
    LET cell_index == IF cell.type = "str" THEN _get_cell_index(cells, cell) ELSE Return(cell)
    IN  IF cell_index.kind = "raise"
        THEN cell_index
        ELSE LET sub == Subscript(cells, cell_index.val)
             IN  IF sub.kind = "raise"
                 THEN sub
                 ELSE Return(PyStr(strip(ConcatText("", cells[sub.val].outputs))))

\* TestbookNode.output_text of a cell
output_text(node) == Return(PyStr(strip(ConcatText("", node.outputs))))

inject(cells, code, args, prerun) ==
    IF code.type # "str" /\ ~IsCallable(code)
    THEN [cells |-> cells, calls |-> << >>, result |-> Raise("TypeError"),
          inject_cell |-> None]
    ELSE LET lines == lines_of[<<code, args>>]
             pre == IF prerun # None
                    THEN execute_cell(cells, prerun)
                    ELSE [cells |-> cells, calls |-> << >>, result |-> Return(None)]
         IN  IF pre.result.kind = "raise"
             THEN [cells |-> pre.cells, calls |-> pre.calls, result |-> pre.result,
                   inject_cell |-> None]
             ELSE [cells |-> pre.cells, calls |-> pre.calls, result |-> Return(None),
                   inject_cell |-> new_code_cell(lines)]

\* TestbookNotebookClient._execute_result(outputs)
_execute_result(outputs) ==
    IF outputs = None
    THEN None
    ELSE PyList(SelectSeq(outputs, LAMBDA o : o.output_type = "execute_result"))

\* cell.outputs[0].data['application/json']['value']
JsonValue(outputs) ==
    IF outputs = << >>
    THEN Raise("IndexError")
    ELSE IF "data" \notin DOMAIN outputs[1]
    THEN Raise("AttributeError")
    ELSE IF "application/json" \notin DOMAIN outputs[1].data
    THEN Raise("KeyError")
    ELSE Return(outputs[1].data["application/json"].value)

\* the rest of value once self.inject(name) has returned ret
ValueOf(first, ret) ==
    IF ret.type # "cell"
    THEN [first EXCEPT !.result = Raise("AttributeError")]
    ELSE LET found == _execute_result(first.cells[ret.pos].outputs)
         IN  IF found = None \/ found.items = << >>
             THEN [first EXCEPT !.result = Raise("ValueError")]
             ELSE LET second == inject(first.cells, PyStr(JsonCode), None, None)
                      made == first.calls \o second.calls
                  IN  IF second.result.kind = "raise"
                      THEN [second EXCEPT !.calls = made]
                      ELSE IF second.result.val.type # "cell"
                      THEN [second EXCEPT !.calls = made, !.result = Raise("AttributeError")]
                      ELSE [second EXCEPT !.calls = made,
                               !.result = JsonValue(second.cells[second.result.val.pos].outputs)]

value(cells, name) ==
    LET first == inject(cells, name, None, None)
    IN  IF first.result.kind = "raise" THEN first ELSE ValueOf(first, first.result.val)

---------------------------------------------------------------------------
(* The state machine.                                                      *)

Init ==
    /\ nb \in Notebooks
    /\ call = [op |-> "__init__"]
    /\ result = Return(None)
    /\ calls = << >>
    /\ inject_cell = None

GetCellIndex(tag) ==
    /\ call' = [op |-> "_get_cell_index", tag |-> tag]
    /\ result' = _get_cell_index(nb, tag)
    /\ calls' = << >>
    /\ inject_cell' = None
    /\ UNCHANGED nb

ExecuteCell(cell) ==
    LET out == execute_cell(nb, cell)
    IN  /\ call' = [op |-> "execute_cell", cell |-> cell]
        /\ nb' = out.cells
        /\ calls' = out.calls
        /\ result' = out.result
        /\ inject_cell' = None

CellOutputText(cell) ==
    /\ call' = [op |-> "cell_output_text", cell |-> cell]
    /\ result' = cell_output_text(nb, cell)
    /\ calls' = << >>
    /\ inject_cell' = None
    /\ UNCHANGED nb

OutputText(pos) ==
    /\ pos \in DOMAIN nb
    /\ call' = [op |-> "output_text", cell |-> CellRef(pos)]
    /\ result' = output_text(nb[pos])
    /\ calls' = << >>
    /\ inject_cell' = None
    /\ UNCHANGED nb

Inject(code, args, prerun) ==
    LET out == inject(nb, code, args, prerun)
    IN  /\ call' = [op |-> "inject", code |-> code, args |-> args, prerun |-> prerun]
        /\ nb' = out.cells
        /\ calls' = out.calls
        /\ result' = out.result
        /\ inject_cell' = out.inject_cell

Value(name) ==
    LET out == value(nb, name)
    IN  /\ call' = [op |-> "value", name |-> name]
        /\ nb' = out.cells
        /\ calls' = out.calls
        /\ result' = out.result
        /\ inject_cell' = out.inject_cell

Next ==
    \/ \E tag \in TagArgs : GetCellIndex(tag)
    \/ \E cell \in CellArgs : ExecuteCell(cell)
    \/ \E cell \in TextArgs : CellOutputText(cell)
    \/ \E pos \in 1..MaxCells : OutputText(pos)
    \/ \E ca \in CodeArgs, prerun \in Preruns : Inject(ca[1], ca[2], prerun)
    \/ \E name \in Names : Value(name)

Spec == Init /\ [][Next]_vars

---------------------------------------------------------------------------
(* Vocabulary of the properties.                                           *)

\* the elements of the argument of execute_cell, a single cell being a list of one
Items(cell) == IF cell.type = "list" THEN cell.items ELSE <<cell>>

\* item names the cell at position pos: an index selects as a Python subscript
\* does, a tag any cell that carries it
Designates(item, pos) ==
    CASE item.type = "int" ->
            pos \in DOMAIN nb
            /\ (item.val = pos - 1 \/ item.val = pos - 1 - Len(nb))
      [] item.type = "str" -> pos \in Tagged(nb, item.val)
      [] OTHER -> FALSE

\* item is an index or a tag that names some cell of the notebook
Valid(item) == \E pos \in DOMAIN nb : Designates(item, pos)

\* the smallest position of a non-empty set of positions
First(positions) == CHOOSE p \in positions : \A q \in positions : p <= q

\* r is s without its leading and trailing whitespace
IsStripOf(r, s) ==
    /\ \E i, j \in 0..Len(s) :
          /\ i + j <= Len(s)
          /\ r = SubSeq(s, i + 1, Len(s) - j)
          /\ \A k \in 1..i : SubSeq(s, k, k) \in Whitespace
          /\ \A k \in (Len(s) - j + 1)..Len(s) : SubSeq(s, k, k) \in Whitespace
    /\ r # "" => /\ SubSeq(r, 1, 1) \notin Whitespace
                 /\ SubSeq(r, Len(r), Len(r)) \notin Whitespace

\* the text fields of the outputs that have one, in output order, concatenated
AllText(outputs) ==
    LET withText == SelectSeq(outputs, LAMBDA o : "text" \in DOMAIN o)
    IN  Join([i \in DOMAIN withText |-> withText[i].text], "")

\* outputs holds an output of type execute_result
HasExecuteResult(outputs) ==
    \E i \in DOMAIN outputs : outputs[i].output_type = "execute_result"

\* the call injects something inject accepts
InjectsCode(code) == code.type = "str" \/ IsCallable(code)

\* the executor calls of the last method call that were handed a cell with
\* this source
CallsOf(source) == {k \in DOMAIN calls : nb[calls[k].cell].source = source}

---------------------------------------------------------------------------
(* Properties.                                                             *)

\* C1: inject(code, args, prerun) with code a string or a callable, once it
\* returns, has built a code cell from code, has handed that cell to the
\* executor exactly once and returns the executed cell, not None.
C1_InjectExecutesAndReturnsCell ==
    (call.op = "inject" /\ InjectsCode(call.code) /\ result.kind = "return") =>
        /\ inject_cell = new_code_cell(SourceLines(call.code, call.args))
        /\ Cardinality(CallsOf(inject_cell.source)) = 1
        /\ result.val # None

\* C2: value(name) raises ValueError whenever the cell made by injecting name
\* has no execute_result output, and the JSON display is then never injected.
C2_ValueErrorWithoutResult ==
    (/\ call.op = "value"
     /\ InjectsCode(call.name)
     /\ ~HasExecuteResult(Kernel(SourceLines(call.name, None)).outputs)) =>
        /\ result = Raise("ValueError")
        /\ inject_cell # new_code_cell(dedent(JsonCode))

\* C3: when injecting name yields an execute_result, value(name) makes two
\* injections, name first and the JSON display second, and returns the value
\* found in the JSON payload of the second cell.
C3_ValueReturnsJsonValue ==
    (/\ call.op = "value"
     /\ InjectsCode(call.name)
     /\ HasExecuteResult(Kernel(SourceLines(call.name, None)).outputs)) =>
        /\ result.kind = "return"
        /\ Len(calls) = 2
        /\ nb[calls[1].cell].source = SourceLines(call.name, None)
        /\ nb[calls[2].cell].source = dedent(JsonCode)
        /\ result = JsonValue(nb[calls[2].cell].outputs)

\* C4: a string tag that no cell of the notebook carries makes
\* _get_cell_index, execute_cell and cell_output_text raise
\* CellTagNotFoundError; no index or cell comes back and nothing is executed.
C4_UnknownTagRaises ==
    /\ (call.op = "_get_cell_index" /\ call.tag.type = "str"
            /\ Tagged(nb, call.tag.val) = {}) =>
        result = Raise("CellTagNotFoundError")
    /\ (call.op \in {"execute_cell", "cell_output_text"} /\ call.cell.type = "str"
            /\ Tagged(nb, call.cell.val) = {}) =>
        (result = Raise("CellTagNotFoundError") /\ calls = << >>)

\* C4 witness: cell_output_text was called with a tag that is in no cell of a
\* notebook that has a cell without tags metadata and a cell with other tags.
C4_Witness ==
    /\ call.op = "cell_output_text"
    /\ call.cell.type = "str"
    /\ Tagged(nb, call.cell.val) = {}
    /\ \E p \in DOMAIN nb : "tags" \notin DOMAIN nb[p].metadata
    /\ \E p \in DOMAIN nb : "tags" \in DOMAIN nb[p].metadata
    /\ result.kind = "raise"

\* C5: execute_cell on a list whose elements are indexes and tags of cells of
\* the notebook, mixed lists included, resolves every tag and executes, for
\* each element in turn, the cell the element names (as long as no executed
\* cell fails in the kernel).
C5_MixedListsResolved ==
    (/\ call.op = "execute_cell"
     /\ \A i \in DOMAIN Items(call.cell) : Valid(Items(call.cell)[i])
     /\ result # Raise("CellExecutionError")) =>
        /\ result.kind = "return"
        /\ Len(calls) = Len(Items(call.cell))
        /\ \A k \in DOMAIN calls : Designates(Items(call.cell)[k], calls[k].cell)

\* C6: cell_output_text(cell) returns the text fields of the outputs of the
\* selected cell, concatenated in output order and stripped of leading and
\* trailing whitespace; "" when no output has text; and the same text as
\* TestbookNode.output_text of that cell.
C6_OutputTextConcatenatedAndStripped ==
    (call.op = "cell_output_text" /\ result.kind = "return") =>
        LET pos == First({p \in DOMAIN nb : Designates(call.cell, p)})
        IN  /\ result.val.type = "str"
            /\ IsStripOf(result.val.val, AllText(nb[pos].outputs))
            /\ (\A i \in DOMAIN nb[pos].outputs : "text" \notin DOMAIN nb[pos].outputs[i])
                   => result.val.val = ""
            /\ result = output_text(nb[pos])

\* C6 witness: cell_output_text returned the text of a cell that has two text
\* outputs around an output without text, with whitespace at both ends.
C6_Witness ==
    /\ call.op = "cell_output_text"
    /\ result.kind = "return"
    /\ \E p \in DOMAIN nb :
          /\ Designates(call.cell, p)
          /\ Len(nb[p].outputs) = 3
          /\ "text" \notin DOMAIN nb[p].outputs[2]
          /\ result.val.val # AllText(nb[p].outputs)
          /\ result.val.val # ""

\* C7: _get_cell_index(tag) returns the smallest index of a cell carrying the
\* tag; an int comes back unchanged, in range or not; anything that is neither
\* int nor str raises TypeError.
C7_FirstMatchIntUnchangedTypeError ==
    call.op = "_get_cell_index" =>
        /\ (call.tag.type = "str" /\ Tagged(nb, call.tag.val) # {}) =>
               result = Return(PyInt(First(Tagged(nb, call.tag.val)) - 1))
        /\ call.tag.type = "int" => result = Return(call.tag)
        /\ call.tag.type \notin {"int", "str"} => result = Raise("TypeError")

\* C7 witness: _get_cell_index resolved a tag that several cells carry.
C7_Witness ==
    /\ call.op = "_get_cell_index"
    /\ call.tag.type = "str"
    /\ Cardinality(Tagged(nb, call.tag.val)) >= 2
    /\ result.kind = "return"

\* C8: an execute_cell that returns has made one executor call per element of
\* its list, in list order (a repeated element is executed again), and
\* returns the executed cells in that order: the cell itself when exactly one
\* was executed, a list otherwise, the empty list for the empty list.
C8_OneCallPerElementInOrder ==
    (call.op = "execute_cell" /\ result.kind = "return") =>
        LET items == Items(call.cell)
        IN  /\ Len(calls) = Len(items)
            /\ \A k \in DOMAIN calls :
                  /\ Designates(items[k], calls[k].cell)
                  /\ nb[calls[k].cell].outputs = Kernel(nb[calls[k].cell].source).outputs
            /\ result.val = IF Len(items) = 1
                            THEN CellRef(calls[1].cell)
                            ELSE PyList([k \in DOMAIN calls |-> CellRef(calls[k].cell)])
            /\ items = << >> => (calls = << >> /\ result.val = PyList(<< >>))

\* C8 witness: execute_cell returned from a list of two different cells.
C8_Witness ==
    /\ call.op = "execute_cell"
    /\ call.cell.type = "list"
    /\ result.kind = "return"
    /\ Len(calls) = 2
    /\ calls[1].cell # calls[2].cell

\* C9: inject with a prerun of indexes and tags of cells of the notebook
\* executes every prerun cell, in the order given, and the injected cell only
\* after them (as long as no executed cell fails in the kernel); inject with
\* code that is neither a string nor a callable raises TypeError and executes
\* nothing.
C9_PrerunFirstThenInjected ==
    call.op = "inject" =>
        /\ (/\ InjectsCode(call.code)
            /\ call.prerun # None
            /\ \A i \in DOMAIN Items(call.prerun) : Valid(Items(call.prerun)[i])
            /\ result # Raise("CellExecutionError")) =>
               /\ Len(calls) >= Len(Items(call.prerun))
               /\ \A k \in DOMAIN Items(call.prerun) :
                     Designates(Items(call.prerun)[k], calls[k].cell)
               /\ \A k \in CallsOf(SourceLines(call.code, call.args)) :
                     k > Len(Items(call.prerun))
        /\ ~InjectsCode(call.code) =>
               (result = Raise("TypeError") /\ calls = << >>)

\* C10: a step that calls execute_cell with a list of tags, one of which no
\* cell carries, raises CellTagNotFoundError, makes no executor call and
\* leaves every cell of the notebook as it was.
C10_UnknownTagExecutesNothing ==
    [][(/\ call'.op = "execute_cell"
        /\ call'.cell.type = "list"
        /\ \A i \in DOMAIN call'.cell.items : call'.cell.items[i].type = "str"
        /\ \E i \in DOMAIN call'.cell.items : Tagged(nb, call'.cell.items[i].val) = {}) =>
           (result' = Raise("CellTagNotFoundError") /\ calls' = << >> /\ nb' = nb)]_vars

\* C10 witness: execute_cell was called with a list of two tags, the first
\* carried by a cell and the second by none.
C10_Witness ==
    /\ call.op = "execute_cell"
    /\ call.cell.type = "list"
    /\ Len(call.cell.items) = 2
    /\ call.cell.items[1].type = "str" /\ Tagged(nb, call.cell.items[1].val) # {}
    /\ call.cell.items[2].type = "str" /\ Tagged(nb, call.cell.items[2].val) = {}
    /\ result = Raise("CellTagNotFoundError")

====
